---------------------------- MODULE Spec2Model ----------------------------
(***************************************************************************)
(* Model of the redisx adapters of the kit repository: the typed field map *)
(* HashMap[K,V] (src/redisx/hash_map.go) and the typed sorted queue        *)
(* ZQueue[T] (src/redisx/z_queue.go), each bound to one container of a     *)
(* Redis-like store.  A wire string is a sequence of one-character         *)
(* strings; a Go int64 is an integer, a Go string is a wire string.        *)
(* Several clients call the adapters concurrently; the store executes one  *)
(* command at a time.  A write issued through Pipeline()/Exec sends its    *)
(* commands together, and the store executes them one after the other as   *)
(* separate commands (no MULTI/EXEC), so commands of other clients may be  *)
(* executed between them.                                                  *)
(***************************************************************************)
EXTENDS Integers, Sequences, FiniteSets

VARIABLES
    hash,    \* the hash container: wire field -> wire value, for the fields present
    hTTL,    \* expiry of the hash container, 0 when it has none
    zset,    \* the sorted container: wire member -> score, for the members present
    zTTL,    \* expiry of the sorted container, 0 when it has none
    Desc,    \* ZQueue.Desc, the adapter's stored ordering flag
    pend,    \* per client: the pipelined write whose Expire the store has not executed yet
    last,    \* the call that has returned and whose result the caller has not taken yet
    sums,    \* history: for a field written by successful Incr calls only since it
             \* was absent, the sum of their increments
    logger,         \* package log: the level set on the package's own logger
    custom,         \* package log: the level set on a logger supplied by the caller
    defaultLogger,  \* package log: the logger the package-level functions write to
    logLevel        \* package log: the level GetLogLevel reports

\* the state of package log, which the redisx adapters never touch
logVars == <<logger, custom, defaultLogger, logLevel>>

vars == <<hash, hTTL, zset, zTTL, Desc, pend, last, sums, logVars>>

----------------------------------------------------------------------------
(* Bounds of the model *)

\* int64 values of fields and members range over -MaxInt..MaxInt
MaxInt == 1
\* counters driven by Incr/IncrFloat stay within -MaxCounter..MaxCounter
MaxCounter == 2
\* scores and score bounds range over -MaxScore..MaxScore
MaxScore == 2
\* longest field list of Delete and member list of AddMulti/RemoveMulti
MaxList == 2
\* longest field list of GetMulti
MaxFields == 3
\* largest count of PopMinMulti/PopMaxMulti
MaxCount == 3

Clients == {"c1", "c2"}

\* the generic type arguments the adapters are instantiated with
Types == {"int64", "string"}

\* expire arguments: none, and two positive durations
Durations == {0, 5, 9}

\* expire arguments that ask for no expiry: none, and a negative duration
NonPositive == {0 - 5, 0}

----------------------------------------------------------------------------
(* typex: conversion between Go values and wire strings *)

Digits == <<"0", "1", "2", "3", "4", "5", "6", "7", "8", "9">>

IsDigit(ch) == \E i \in 1..10 : Digits[i] = ch

DigitVal(ch) == (CHOOSE i \in 1..10 : Digits[i] = ch) - 1

RECURSIVE NatToStr(_)
NatToStr(n) ==
    IF n < 10 THEN <<Digits[n + 1]>>
    ELSE NatToStr(n \div 10) \o <<Digits[(n % 10) + 1]>>

FormatInt(n) == IF n < 0 THEN <<"-">> \o NatToStr(0 - n) ELSE NatToStr(n)

RECURSIVE DigitsToNat(_, _)
DigitsToNat(s, acc) ==
    IF s = <<>> THEN acc
    ELSE DigitsToNat(Tail(s), acc * 10 + DigitVal(Head(s)))

AllDigits(s) == s # <<>> /\ \A i \in 1..Len(s) : IsDigit(s[i])

\* decimal parse of a wire string: [ok, val]
ParseInt(s) ==
    IF s # <<>> /\ Head(s) = "-" /\ AllDigits(Tail(s))
    THEN [ok |-> TRUE, val |-> 0 - DigitsToNat(Tail(s), 0)]
    ELSE IF AllDigits(s)
    THEN [ok |-> TRUE, val |-> DigitsToNat(s, 0)]
    ELSE [ok |-> FALSE, val |-> 0]

Zero(T) == IF T = "int64" THEN 0 ELSE <<>>

\* typex.ToString
ToString(T, v) == IF T = "int64" THEN FormatInt(v) ELSE v

\* typex.ToAnyE[T]: the decoded value, or a conversion error
ToAnyE(T, s) ==
    IF T = "int64"
    THEN IF ParseInt(s).ok THEN [val |-> ParseInt(s).val, err |-> "nil"]
         ELSE [val |-> Zero(T), err |-> "ConversionError"]
    ELSE [val |-> s, err |-> "nil"]

\* typex.ToAny[T]: the decoded value; it has no error result
ToAny(T, s) == ToAnyE(T, s).val

Decodable(T, s) == ToAnyE(T, s).err = "nil"

----------------------------------------------------------------------------
(* Inputs *)

IntDomain == (0 - MaxInt)..MaxInt

\* The Go values callers pass as fields (type K) and as values (type V).  The
\* wide domains mix both instantiations of the adapter over one container; the
\* narrow ones keep the container small where the expiry is what matters.
FieldsOf(wide, K) ==
    IF wide THEN (IF K = "int64" THEN {1} ELSE {<<"a">>, <<"1">>})
    ELSE (IF K = "int64" THEN {} ELSE {<<"a">>})

ValuesOf(wide, V) ==
    IF wide THEN (IF V = "int64" THEN IntDomain ELSE {<<"x">>})
    ELSE (IF V = "int64" THEN {1} ELSE {})

\* increments of Incr and IncrFloat
Increments(wide) == IF wide THEN IntDomain ELSE {1}

\* sequences over S of length at most n
SeqUpTo(S, n) == UNION {[1..k -> S] : k \in 0..n}

\* maps from a subset of S to R
MapsOf(S, R) == UNION {[D -> R] : D \in SUBSET S}

Range(f) == {f[x] : x \in DOMAIN f}

EmptyMap == [x \in {} |-> 0]


\* m2 laid over m1
Merge(m1, m2) ==
    [x \in (DOMAIN m1) \cup (DOMAIN m2) |-> IF x \in DOMAIN m2 THEN m2[x] ELSE m1[x]]

Restrict(m, D) == [x \in D |-> m[x]]

\* m without the keys in D
Without(m, D) == [x \in (DOMAIN m) \ D |-> m[x]]

----------------------------------------------------------------------------
(* The store's commands on the hash container.  A command that fails has no
   effect and answers with its error. *)

\* HSET key f1 v1 ...: sets the given fields
HSetCmd(h, m) == Merge(h, m)

\* HGET key f: the value, or redis.Nil when the field is absent
HGetCmd(h, f) ==
    IF f \in DOMAIN h THEN [val |-> h[f], err |-> "nil"]
    ELSE [val |-> <<>>, err |-> "redis.Nil"]

\* HMGET key f1 f2 ...: one answer per requested field, nil for an absent one
HMGetCmd(h, fs) ==
    [i \in 1..Len(fs) |->
        IF fs[i] \in DOMAIN h THEN [isNil |-> FALSE, s |-> h[fs[i]]]
        ELSE [isNil |-> TRUE, s |-> <<>>]]

\* HDEL key f1 f2 ...: removes the given fields; absent ones are ignored
HDelCmd(h, fs) == Restrict(h, (DOMAIN h) \ Range(fs))

\* HINCRBY key f d: the new value; a field that holds no integer is an error
HIncrByCmd(h, f, d) ==
    LET old == IF f \in DOMAIN h THEN ParseInt(h[f]) ELSE [ok |-> TRUE, val |-> 0]
    IN  IF old.ok
        THEN [h |-> Merge(h, [x \in {f} |-> FormatInt(old.val + d)]),
              val |-> old.val + d, err |-> "nil"]
        ELSE [h |-> h, val |-> 0, err |-> "NotAnInteger"]

\* EXPIRE key d: sets the expiry of an existing container, does nothing otherwise
ExpireCmd(exists, ttl, d) == IF exists THEN d ELSE ttl

\* a container that became empty is removed by the store, with its expiry
TTLAfter(container, ttl) == IF DOMAIN container = {} THEN 0 ELSE ttl

----------------------------------------------------------------------------
(* Pipelines *)

Idle == [op |-> "idle"]

NoCall == [op |-> "none"]

RECURSIVE FirstErr(_)
\* Pipeline.Exec: the error of the first command that failed, nil when none did
FirstErr(errs) ==
    IF errs = <<>> THEN "nil"
    ELSE IF Head(errs) # "nil" THEN Head(errs)
    ELSE FirstErr(Tail(errs))

\* a write that reports only the error of the last command of its batch
WriteReturnLastOnly(errs) == [err |-> errs[Len(errs)], val |-> 0]

\* `_, err := pipe.Exec(ctx); return err` of Set, SetMulti, Add and AddMulti
WriteReturn(errs) == [err |-> FirstErr(errs), val |-> 0]

\* an increment that returns one less than the command's answer when that is above 1
IncrReturnDelta(errs, cmdVal) ==
    IF FirstErr(errs) # "nil" THEN [err |-> FirstErr(errs), val |-> 0]
    ELSE [err |-> "nil", val |-> IF cmdVal > 1 THEN cmdVal - 1 ELSE cmdVal]

\* `if err != nil { return 0, err }; return incrCmd.Val(), nil` of Incr and IncrFloat
IncrReturn(errs, cmdVal) ==
    IF FirstErr(errs) # "nil" THEN [err |-> FirstErr(errs), val |-> 0]
    ELSE [err |-> "nil", val |-> cmdVal]

IncrOps == {"Incr", "IncrFloat"}

\* what the call started as `op` returns once Exec has the answers of its commands
Returned(op, key, args, expire, errs, cmdVal) ==
    LET r == IF op \in IncrOps THEN IncrReturn(errs, cmdVal) ELSE WriteReturn(errs)
    IN  [op |-> op, key |-> key, args |-> args, expire |-> expire,
         errs |-> errs, err |-> r.err, val |-> r.val]

\* a batch that holds an Expire command for every expire but 0
HasExpireNonZero(expire) == expire # 0

\* `if expire > 0 { pipe.Expire(...) }`: whether the batch holds an Expire command
HasExpire(expire) == expire > 0

\* client c may call: it has no batch in flight, and the result of the call
\* that returned last has been taken
CanCall(c) == pend[c].op = "idle" /\ last.op = "none"

\* After the store executed the first command of client c's batch: with an
\* Expire queued behind it the call is still in flight, otherwise Exec returns.
AfterFirst(c, op, key, args, expire, e1, cmdVal) ==
    IF HasExpire(expire)
    THEN /\ pend' = [pend EXCEPT ![c] = [op |-> op, key |-> key, args |-> args,
                                         expire |-> expire, err |-> e1, val |-> cmdVal]]
         /\ last' = NoCall
    ELSE /\ pend' = pend
         /\ last' = Returned(op, key, args, expire, <<e1>>, cmdVal)

\* The store executes the Expire command of client c's batch and Exec returns.
ExecExpire(c, fail) ==
    /\ pend[c].op # "idle"
    /\ last.op = "none"
    /\ LET p == pend[c]
           e2 == IF fail THEN "ERR_EXPIRE" ELSE "nil"
       IN  /\ IF p.key = "hash"
              THEN /\ hTTL' = IF fail THEN hTTL
                              ELSE ExpireCmd(DOMAIN hash # {}, hTTL, p.expire)
                   /\ zTTL' = zTTL
              ELSE /\ zTTL' = IF fail THEN zTTL
                              ELSE ExpireCmd(DOMAIN zset # {}, zTTL, p.expire)
                   /\ hTTL' = hTTL
           /\ last' = Returned(p.op, p.key, p.args, p.expire, <<p.err, e2>>, p.val)
           /\ sums' = IF p.op = "Incr" /\ last'.err # "nil"
                      THEN Without(sums, {p.args.field}) ELSE sums
    /\ pend' = [pend EXCEPT ![c] = Idle]
    /\ UNCHANGED <<hash, zset, Desc, logVars>>

----------------------------------------------------------------------------
(* HashMap[K, V] *)

\* Set: HSET, and EXPIRE when expire > 0, through one pipeline
Set(c, K, V, field, value, expire, fail) ==
    /\ LET f  == ToString(K, field)
           v  == ToString(V, value)
           e1 == IF fail THEN "ERR_HSET" ELSE "nil"
       IN  /\ hash' = IF fail THEN hash ELSE HSetCmd(hash, [x \in {f} |-> v])
           /\ AfterFirst(c, "Set", "hash",
                         [K |-> K, V |-> V, field |-> field, value |-> value, fail |-> fail],
                         expire, e1, 0)
           /\ sums' = IF fail THEN sums ELSE Without(sums, {f})
    /\ UNCHANGED <<hTTL, zset, zTTL, Desc, logVars>>

\* the map[string]interface{} SetMulti builds from its argument
EncodeFields(K, V, fields) ==
    [s \in {ToString(K, k) : k \in DOMAIN fields} |->
        ToString(V, fields[CHOOSE k \in DOMAIN fields : ToString(K, k) = s])]

\* SetMulti: nothing for an empty map, otherwise like Set with all the fields
SetMulti(c, K, V, fields, expire, fail) ==
    /\ IF DOMAIN fields = {}
       THEN /\ last' = [op |-> "SetMulti", key |-> "hash",
                        args |-> [n |-> 0, fail |-> fail],
                        expire |-> expire, errs |-> <<>>, err |-> "nil", val |-> 0]
            /\ UNCHANGED <<hash, pend, sums>>
       ELSE LET e1 == IF fail THEN "ERR_HSET" ELSE "nil"
            IN  /\ hash' = IF fail THEN hash
                           ELSE HSetCmd(hash, EncodeFields(K, V, fields))
                /\ AfterFirst(c, "SetMulti", "hash",
                              [n |-> Cardinality(DOMAIN fields), fail |-> fail],
                              expire, e1, 0)
                /\ sums' = IF fail THEN sums
                           ELSE Without(sums, DOMAIN EncodeFields(K, V, fields))
    /\ UNCHANGED <<hTTL, zset, zTTL, Desc, logVars>>

\* the record of a call that took one command (or none) and returned
Result(op, key, args, val, err) ==
    [op |-> op, key |-> key, args |-> args, expire |-> 0,
     errs |-> <<err>>, err |-> err, val |-> val]

\* a Get that returns redis.Nil to its caller like any other error
GetResNilAsError(K, V, h, field, fail) ==
    LET r == IF fail THEN [val |-> <<>>, err |-> "ERR_HGET"]
             ELSE HGetCmd(h, ToString(K, field))
    IN  IF r.err # "nil" THEN [val |-> Zero(V), err |-> r.err]
        ELSE ToAnyE(V, r.val)

\* Get: the zero value and no error for an absent field (redis.Nil), the store's
\* error otherwise, else the decoded value
GetRes(K, V, h, field, fail) ==
    LET r == IF fail THEN [val |-> <<>>, err |-> "ERR_HGET"]
             ELSE HGetCmd(h, ToString(K, field))
    IN  IF r.err # "nil"
        THEN IF r.err = "redis.Nil" THEN [val |-> Zero(V), err |-> "nil"]
             ELSE [val |-> Zero(V), err |-> r.err]
        ELSE ToAnyE(V, r.val)

RECURSIVE GetMultiLoop(_, _, _, _, _)
\* `for i, val := range vals`: skips nil answers, stops at the first decode error
GetMultiLoop(V, fields, vals, i, result) ==
    IF i > Len(vals) THEN [val |-> result, err |-> "nil"]
    ELSE IF ~vals[i].isNil
    THEN LET d == ToAnyE(V, vals[i].s)
         IN  IF d.err # "nil" THEN [val |-> EmptyMap, err |-> d.err]
             ELSE GetMultiLoop(V, fields, vals, i + 1,
                               Merge(result, [x \in {fields[i]} |-> d.val]))
    ELSE GetMultiLoop(V, fields, vals, i + 1, result)

\* a GetMulti that gives the zero value to the requested fields that are absent
GetMultiResZeroForAbsent(K, V, h, fields, fail) ==
    LET r == IF Len(fields) = 0 THEN [val |-> EmptyMap, err |-> "nil"]
             ELSE IF fail THEN [val |-> EmptyMap, err |-> "ERR_HMGET"]
             ELSE GetMultiLoop(V, fields,
                      HMGetCmd(h, [i \in 1..Len(fields) |-> ToString(K, fields[i])]),
                      1, EmptyMap)
    IN  IF r.err # "nil" \/ fail THEN r
        ELSE [val |-> Merge([k \in Range(fields) |-> Zero(V)], r.val), err |-> "nil"]

\* GetMulti: an empty map without a command for no fields, else HMGET and the loop
GetMultiRes(K, V, h, fields, fail) ==
    IF Len(fields) = 0 THEN [val |-> EmptyMap, err |-> "nil"]
    ELSE IF fail THEN [val |-> EmptyMap, err |-> "ERR_HMGET"]
    ELSE GetMultiLoop(V, fields,
                      HMGetCmd(h, [i \in 1..Len(fields) |-> ToString(K, fields[i])]),
                      1, EmptyMap)

RECURSIVE DecodeAll(_, _, _)
\* the decode loop of Keys and Values over the store's answer
DecodeAll(T, strs, result) ==
    IF strs = <<>> THEN [val |-> result, err |-> "nil"]
    ELSE LET d == ToAnyE(T, Head(strs))
         IN  IF d.err # "nil" THEN [val |-> <<>>, err |-> d.err]
             ELSE DecodeAll(T, Tail(strs), Append(result, d.val))

\* the orders in which the fields of h may be listed by the store or visited by
\* a map iteration
Orders(h) ==
    {o \in [1..Cardinality(DOMAIN h) -> DOMAIN h] :
        \A i, j \in DOMAIN o : i # j => o[i] # o[j]}

RECURSIVE GetAllLoop(_, _, _, _, _, _)
\* `for k, v := range vals`: the fields are visited in the order o of the map
\* iteration; the first decode error ends the call, and a field whose decoded
\* key is already in the result overwrites it
GetAllLoop(K, V, h, o, i, result) ==
    IF i > Len(o) THEN [val |-> result, err |-> "nil"]
    ELSE LET key == ToAnyE(K, o[i])
             val == ToAnyE(V, h[o[i]])
         IN  IF key.err # "nil" THEN [val |-> EmptyMap, err |-> key.err]
             ELSE IF val.err # "nil" THEN [val |-> EmptyMap, err |-> val.err]
             ELSE GetAllLoop(K, V, h, o, i + 1,
                             Merge(result, [x \in {key.val} |-> val.val]))

\* GetAll: HGETALL, then the loop over the answer in the iteration order o
GetAllRes(K, V, h, o, fail) ==
    IF fail THEN [val |-> EmptyMap, err |-> "ERR_HGETALL"]
    ELSE GetAllLoop(K, V, h, o, 1, EmptyMap)

\* Keys: HKEYS (answering in the order o), every field decoded
KeysRes(K, o, fail) ==
    IF fail THEN [val |-> <<>>, err |-> "ERR_HKEYS"] ELSE DecodeAll(K, o, <<>>)

\* Values: HVALS (answering in the order o), every value decoded
ValuesRes(V, h, o, fail) ==
    IF fail THEN [val |-> <<>>, err |-> "ERR_HVALS"]
    ELSE DecodeAll(V, [i \in DOMAIN o |-> h[o[i]]], <<>>)

\* a read of the hash container by a client: the store is left as it is
HashRead(c, op, args, r) ==
    /\ last' = Result(op, "hash", args, r.val, r.err)
    /\ UNCHANGED <<hash, hTTL, zset, zTTL, Desc, pend, sums, logVars>>

Get(c, K, V, field, fail) ==
    HashRead(c, "Get", [K |-> K, V |-> V, field |-> field, fail |-> fail],
             GetRes(K, V, hash, field, fail))

GetMulti(c, K, V, fields, fail) ==
    HashRead(c, "GetMulti", [fields |-> fields, K |-> K, V |-> V, fail |-> fail],
             GetMultiRes(K, V, hash, fields, fail))

GetAll(c, K, V, o, fail) ==
    HashRead(c, "GetAll", [K |-> K, V |-> V, fail |-> fail],
             GetAllRes(K, V, hash, o, fail))

Keys(c, K, o, fail) ==
    HashRead(c, "Keys", [K |-> K, fail |-> fail], KeysRes(K, o, fail))

Values_(c, V, o, fail) ==
    HashRead(c, "Values", [V |-> V, fail |-> fail], ValuesRes(V, hash, o, fail))

\* Exists: HEXISTS
Exists(c, K, field, fail) ==
    HashRead(c, "Exists", [field |-> ToString(K, field), fail |-> fail],
             IF fail THEN [val |-> FALSE, err |-> "ERR_HEXISTS"]
             ELSE [val |-> ToString(K, field) \in DOMAIN hash, err |-> "nil"])

\* Len: HLEN
Len_(c, fail) ==
    HashRead(c, "Len", [fail |-> fail],
             IF fail THEN [val |-> 0, err |-> "ERR_HLEN"]
             ELSE [val |-> Cardinality(DOMAIN hash), err |-> "nil"])

\* Delete: nothing for no fields, otherwise HDEL of the encoded fields
Delete(c, K, fields, fail) ==
    /\ IF Len(fields) = 0 \/ fail
       THEN UNCHANGED <<hash, hTTL>>
       ELSE /\ hash' = HDelCmd(hash, [i \in 1..Len(fields) |-> ToString(K, fields[i])])
            /\ hTTL' = TTLAfter(hash', hTTL)
    /\ last' = Result("Delete", "hash", [K |-> K, fields |-> fields, fail |-> fail], 0,
                      IF Len(fields) # 0 /\ fail THEN "ERR_HDEL" ELSE "nil")
    /\ sums' = Restrict(sums, (DOMAIN sums) \cap (DOMAIN hash'))
    /\ UNCHANGED <<zset, zTTL, Desc, pend, logVars>>

\* HINCRBYFLOAT key f d, for increments and stored values that are whole numbers
HIncrByFloatCmd(h, f, d) ==
    LET r == HIncrByCmd(h, f, d)
    IN  IF r.err = "nil" THEN r ELSE [r EXCEPT !.err = "NotAFloat"]

\* Incr: HINCRBY, and EXPIRE when expire > 0, through one pipeline
Incr(c, K, field, increment, expire, fail) ==
    /\ LET f == ToString(K, field)
           r == HIncrByCmd(hash, f, increment)
           e1 == IF fail THEN "ERR_HINCRBY" ELSE r.err
       IN  /\ r.val \in (0 - MaxCounter)..MaxCounter
           /\ hash' = IF fail THEN hash ELSE r.h
           /\ AfterFirst(c, "Incr", "hash",
                         [field |-> f, increment |-> increment, fail |-> fail],
                         expire, e1, IF fail THEN 0 ELSE r.val)
           /\ sums' = IF e1 # "nil" THEN Without(sums, {f})
                      ELSE IF f \notin DOMAIN hash
                      THEN Merge(sums, [x \in {f} |-> increment])
                      ELSE IF f \in DOMAIN sums
                      THEN [sums EXCEPT ![f] = @ + increment]
                      ELSE sums
    /\ UNCHANGED <<hTTL, zset, zTTL, Desc, logVars>>

\* IncrFloat: HINCRBYFLOAT, and EXPIRE when expire > 0, through one pipeline
IncrFloat(c, K, field, increment, expire, fail) ==
    /\ LET f == ToString(K, field)
           r == HIncrByFloatCmd(hash, f, increment)
           e1 == IF fail THEN "ERR_HINCRBYFLOAT" ELSE r.err
       IN  /\ r.val \in (0 - MaxCounter)..MaxCounter
           /\ hash' = IF fail THEN hash ELSE r.h
           /\ AfterFirst(c, "IncrFloat", "hash",
                         [field |-> f, increment |-> increment, fail |-> fail],
                         expire, e1, IF fail THEN 0 ELSE r.val)
           /\ sums' = IF e1 # "nil" THEN sums ELSE Without(sums, {f})
    /\ UNCHANGED <<hTTL, zset, zTTL, Desc, logVars>>

----------------------------------------------------------------------------
(* The store's commands on the sorted container *)

\* the characters of the model's wire strings, in byte order
Alphabet == <<"+", "-", "0", "1", "2", "3", "4", "5", "6", "7", "8", "9",
              "a", "f", "i", "n", "x">>

CharCode(ch) == CHOOSE i \in 1..Len(Alphabet) : Alphabet[i] = ch

RECURSIVE LexLess(_, _)
\* byte-wise comparison of two wire strings
LexLess(a, b) ==
    IF b = <<>> THEN FALSE
    ELSE IF a = <<>> THEN TRUE
    ELSE IF Head(a) # Head(b) THEN CharCode(Head(a)) < CharCode(Head(b))
    ELSE LexLess(Tail(a), Tail(b))

\* the store's order: by score, members of equal score by their bytes
ZLess(z, m, n) == z[m] < z[n] \/ (z[m] = z[n] /\ LexLess(m, n))

RECURSIVE SortedZ(_)
\* the container's entries (redis.Z) from the lowest to the highest
SortedZ(z) ==
    IF DOMAIN z = {} THEN <<>>
    ELSE LET m == CHOOSE m \in DOMAIN z : \A n \in (DOMAIN z) \ {m} : ZLess(z, m, n)
         IN  <<[Member |-> m, Score |-> z[m]]>> \o SortedZ(Restrict(z, (DOMAIN z) \ {m}))

Reverse(s) == [i \in 1..Len(s) |-> s[Len(s) + 1 - i]]

MinOf(a, b) == IF a < b THEN a ELSE b

RECURSIVE ZAddAll(_, _)
ZAddAll(z, ms) ==
    IF ms = <<>> THEN z
    ELSE ZAddAll(Merge(z, [x \in {Head(ms).Member} |-> Head(ms).Score]), Tail(ms))

\* ZADD key score member ...: inserts, or updates the score of a member present;
\* without a member the command is malformed
ZAddCmd(z, ms) ==
    IF ms = <<>> THEN [z |-> z, err |-> "ERR wrong number of arguments"]
    ELSE [z |-> ZAddAll(z, ms), err |-> "nil"]

\* ZREM key member ...: removes the members present; malformed without a member
ZRemCmd(z, members) ==
    IF members = <<>> THEN [z |-> z, err |-> "ERR wrong number of arguments"]
    ELSE [z |-> Restrict(z, (DOMAIN z) \ Range(members)), err |-> "nil"]

MinusInf == <<"-", "i", "n", "f">>

PlusInf == <<"+", "i", "n", "f">>

\* a score bound as the store reads it: -inf, +inf or a number
ParseBound(s) ==
    IF s = MinusInf THEN [ok |-> TRUE, inf |-> 0 - 1, val |-> 0]
    ELSE IF s = PlusInf THEN [ok |-> TRUE, inf |-> 1, val |-> 0]
    ELSE [ok |-> ParseInt(s).ok, inf |-> 0, val |-> ParseInt(s).val]

AtLeast(score, lo) == lo.inf < 0 \/ (lo.inf = 0 /\ lo.val <= score)

AtMost(score, hi) == hi.inf > 0 \/ (hi.inf = 0 /\ score <= hi.val)

\* the entries of the ordered sequence zs with a score in the window
InWindow(zs, minS, maxS) ==
    LET Test(e) == AtLeast(e.Score, ParseBound(minS)) /\ AtMost(e.Score, ParseBound(maxS))
    IN  SelectSeq(zs, Test)

\* LIMIT offset count: skips offset entries, keeps count of the rest, all of
\* them for a negative count
Limit(zs, offset, count) ==
    IF offset < 0 \/ offset >= Len(zs) THEN <<>>
    ELSE LET rest == SubSeq(zs, offset + 1, Len(zs))
         IN  IF count < 0 THEN rest ELSE SubSeq(rest, 1, MinOf(count, Len(rest)))

\* the client library sends LIMIT only `if opt.Offset != 0 || opt.Count != 0`
WithLimit(zs, offset, count) ==
    IF offset # 0 \/ count # 0 THEN Limit(zs, offset, count) ELSE zs

\* ZRANGEBYSCORE key min max WITHSCORES [LIMIT offset count]
ZRangeByScoreCmd(z, minS, maxS, offset, count) ==
    IF ~ParseBound(minS).ok \/ ~ParseBound(maxS).ok
    THEN [val |-> <<>>, err |-> "ERR min or max is not a float"]
    ELSE [val |-> WithLimit(InWindow(SortedZ(z), minS, maxS), offset, count),
          err |-> "nil"]

\* ZREVRANGEBYSCORE key max min WITHSCORES [LIMIT offset count]
ZRevRangeByScoreCmd(z, minS, maxS, offset, count) ==
    IF ~ParseBound(minS).ok \/ ~ParseBound(maxS).ok
    THEN [val |-> <<>>, err |-> "ERR min or max is not a float"]
    ELSE [val |-> WithLimit(InWindow(Reverse(SortedZ(z)), minS, maxS), offset, count),
          err |-> "nil"]

\* ZPOPMIN key count: removes and answers the count lowest entries
ZPopMinCmd(z, count) ==
    LET zs == SubSeq(SortedZ(z), 1, MinOf(count, Cardinality(DOMAIN z)))
    IN  [val |-> zs,
         z |-> Restrict(z, (DOMAIN z) \ {zs[i].Member : i \in 1..Len(zs)})]

\* ZPOPMAX key count: removes and answers the count highest entries
ZPopMaxCmd(z, count) ==
    LET zs == SubSeq(Reverse(SortedZ(z)), 1, MinOf(count, Cardinality(DOMAIN z)))
    IN  [val |-> zs,
         z |-> Restrict(z, (DOMAIN z) \ {zs[i].Member : i \in 1..Len(zs)})]

\* the members whose score is in the window
MembersInWindow(z, minS, maxS) ==
    {m \in DOMAIN z : AtLeast(z[m], ParseBound(minS)) /\ AtMost(z[m], ParseBound(maxS))}

\* ZREMRANGEBYSCORE key min max: removes the window, answers how many it removed
ZRemRangeByScoreCmd(z, minS, maxS) ==
    IF ~ParseBound(minS).ok \/ ~ParseBound(maxS).ok
    THEN [val |-> 0, z |-> z, err |-> "ERR min or max is not a float"]
    ELSE [val |-> Cardinality(MembersInWindow(z, minS, maxS)),
          z |-> Restrict(z, (DOMAIN z) \ MembersInWindow(z, minS, maxS)),
          err |-> "nil"]

\* ZCOUNT key min max
ZCountCmd(z, minS, maxS) ==
    IF ~ParseBound(minS).ok \/ ~ParseBound(maxS).ok
    THEN [val |-> 0, err |-> "ERR min or max is not a float"]
    ELSE [val |-> Cardinality(MembersInWindow(z, minS, maxS)), err |-> "nil"]

\* ZSCORE key member: the score, or redis.Nil for a member that is absent
ZScoreCmd(z, m) ==
    IF m \in DOMAIN z THEN [val |-> z[m], err |-> "nil"]
    ELSE [val |-> 0, err |-> "redis.Nil"]

----------------------------------------------------------------------------
(* ZQueue[T] *)

\* redisZToElement: the member decoded with ToAny, the score as int64
redisZToElement(T, z) == [Member |-> ToAny(T, z.Member), Score |-> z.Score]

\* redisZToElements
redisZToElements(T, zs) == [i \in 1..Len(zs) |-> redisZToElement(T, zs[i])]

\* redis.Z{Score: float64(score), Member: typex.ToString(member)}
ToRedisZ(T, member, score) == [Member |-> ToString(T, member), Score |-> score]

\* Add: ZADD, and EXPIRE when expire > 0, through one pipeline
Add(c, T, member, score, expire, fail) ==
    /\ LET r  == ZAddCmd(zset, <<ToRedisZ(T, member, score)>>)
           e1 == IF fail THEN "ERR_ZADD" ELSE r.err
       IN  /\ zset' = IF fail THEN zset ELSE r.z
           /\ AfterFirst(c, "Add", "zset", [n |-> 1, fail |-> fail], expire, e1, 0)
    /\ UNCHANGED <<hash, hTTL, zTTL, Desc, sums, logVars>>

\* AddMulti: ZADD with every element, and EXPIRE when expire > 0, through one pipeline
AddMulti(c, T, elements, expire, fail) ==
    /\ LET members == [i \in 1..Len(elements) |->
                          ToRedisZ(T, elements[i].Member, elements[i].Score)]
           r  == ZAddCmd(zset, members)
           e1 == IF fail THEN "ERR_ZADD" ELSE r.err
       IN  /\ zset' = IF fail THEN zset ELSE r.z
           /\ AfterFirst(c, "AddMulti", "zset", [n |-> Len(elements), fail |-> fail],
                         expire, e1, 0)
    /\ UNCHANGED <<hash, hTTL, zTTL, Desc, sums, logVars>>

\* a call on the sorted container that takes one command and returns
ZCall(c, op, args, z, r) ==
    /\ zset' = z
    /\ zTTL' = TTLAfter(z, zTTL)
    /\ last' = Result(op, "zset", args, r.val, r.err)
    /\ UNCHANGED <<hash, hTTL, Desc, pend, sums, logVars>>

\* Remove: ZREM of the encoded member
Remove(c, T, member, fail) ==
    LET r == IF fail THEN [z |-> zset, err |-> "ERR_ZREM"]
             ELSE ZRemCmd(zset, <<ToString(T, member)>>)
    IN  ZCall(c, "Remove", [n |-> 1, fail |-> fail], r.z, [val |-> 0, err |-> r.err])

\* RemoveMulti: ZREM of the encoded members
RemoveMulti(c, T, members, fail) ==
    LET r == IF fail THEN [z |-> zset, err |-> "ERR_ZREM"]
             ELSE ZRemCmd(zset, [i \in 1..Len(members) |-> ToString(T, members[i])])
    IN  ZCall(c, "RemoveMulti", [n |-> Len(members), fail |-> fail], r.z, [val |-> 0, err |-> r.err])

\* the sentinel of rangeByScoreInternal: a bound of -1 is no bound
NoBound == 0 - 1

\* rangeByScoreInternal: the bounds as strings, the command chosen by desc,
\* the answer decoded
rangeByScoreInternal(T, z, minScore, maxScore, offset, count, desc, fail) ==
    LET minS == IF minScore # NoBound THEN ToString("int64", minScore) ELSE MinusInf
        maxS == IF maxScore # NoBound THEN ToString("int64", maxScore) ELSE PlusInf
        r    == IF fail THEN [val |-> <<>>, err |-> "ERR_ZRANGE"]
                ELSE IF desc THEN ZRevRangeByScoreCmd(z, minS, maxS, offset, count)
                ELSE ZRangeByScoreCmd(z, minS, maxS, offset, count)
    IN  IF r.err # "nil" THEN [val |-> <<>>, err |-> r.err]
        ELSE [val |-> redisZToElements(T, r.val), err |-> "nil"]

RangeByScoreRes(T, z, d, minScore, maxScore, fail) ==
    rangeByScoreInternal(T, z, minScore, maxScore, 0, 0 - 1, d, fail)

RangeByScoreWithLimitRes(T, z, d, minScore, maxScore, offset, count, fail) ==
    rangeByScoreInternal(T, z, minScore, maxScore, offset, count, d, fail)

RangeFromScoreRes(T, z, d, minScore, fail) ==
    rangeByScoreInternal(T, z, minScore, 0 - 1, 0, 0 - 1, d, fail)

RangeToScoreRes(T, z, d, maxScore, fail) ==
    rangeByScoreInternal(T, z, 0 - 1, maxScore, 0, 0 - 1, d, fail)

\* a Rev call that asks for the order of the base call
RangeByScoreRevSameOrder(T, z, d, minScore, maxScore, fail) ==
    rangeByScoreInternal(T, z, minScore, maxScore, 0, 0 - 1, d, fail)

RangeByScoreRevRes(T, z, d, minScore, maxScore, fail) ==
    rangeByScoreInternal(T, z, minScore, maxScore, 0, 0 - 1, ~d, fail)

RangeByScoreWithLimitRevRes(T, z, d, minScore, maxScore, offset, count, fail) ==
    rangeByScoreInternal(T, z, minScore, maxScore, offset, count, ~d, fail)

RangeFromScoreRevRes(T, z, d, minScore, fail) ==
    rangeByScoreInternal(T, z, minScore, 0 - 1, 0, 0 - 1, ~d, fail)

RangeToScoreRevRes(T, z, d, maxScore, fail) ==
    rangeByScoreInternal(T, z, 0 - 1, maxScore, 0, 0 - 1, ~d, fail)

RangeArgs(T, lo, hi, offset, count, fail) ==
    [T |-> T, min |-> lo, max |-> hi, offset |-> offset, count |-> count, fail |-> fail]

RangeByScore(c, T, minScore, maxScore, fail) ==
    ZCall(c, "RangeByScore", RangeArgs(T, minScore, maxScore, 0, 0 - 1, fail), zset,
          RangeByScoreRes(T, zset, Desc, minScore, maxScore, fail))

RangeByScoreWithLimit(c, T, minScore, maxScore, offset, count, fail) ==
    ZCall(c, "RangeByScoreWithLimit", RangeArgs(T, minScore, maxScore, offset, count, fail),
          zset, RangeByScoreWithLimitRes(T, zset, Desc, minScore, maxScore, offset, count, fail))

RangeFromScore(c, T, minScore, fail) ==
    ZCall(c, "RangeFromScore", RangeArgs(T, minScore, 0, 0, 0 - 1, fail), zset,
          RangeFromScoreRes(T, zset, Desc, minScore, fail))

RangeToScore(c, T, maxScore, fail) ==
    ZCall(c, "RangeToScore", RangeArgs(T, 0, maxScore, 0, 0 - 1, fail), zset,
          RangeToScoreRes(T, zset, Desc, maxScore, fail))

\* a Rev call that stores the inverted flag in the adapter
RangeByScoreRevStoringFlag(c, T, minScore, maxScore, fail) ==
    /\ Desc' = ~Desc
    /\ zTTL' = TTLAfter(zset, zTTL)
    /\ last' = Result("RangeByScoreRev", "zset",
                      RangeArgs(T, minScore, maxScore, 0, 0 - 1, fail),
                      RangeByScoreRevRes(T, zset, Desc, minScore, maxScore, fail).val,
                      RangeByScoreRevRes(T, zset, Desc, minScore, maxScore, fail).err)
    /\ UNCHANGED <<hash, hTTL, zset, pend, sums, logVars>>

RangeByScoreRev(c, T, minScore, maxScore, fail) ==
    ZCall(c, "RangeByScoreRev", RangeArgs(T, minScore, maxScore, 0, 0 - 1, fail), zset,
          RangeByScoreRevRes(T, zset, Desc, minScore, maxScore, fail))

RangeByScoreWithLimitRev(c, T, minScore, maxScore, offset, count, fail) ==
    ZCall(c, "RangeByScoreWithLimitRev",
          RangeArgs(T, minScore, maxScore, offset, count, fail), zset,
          RangeByScoreWithLimitRevRes(T, zset, Desc, minScore, maxScore, offset, count, fail))

RangeFromScoreRev(c, T, minScore, fail) ==
    ZCall(c, "RangeFromScoreRev", RangeArgs(T, minScore, 0, 0, 0 - 1, fail), zset,
          RangeFromScoreRevRes(T, zset, Desc, minScore, fail))

RangeToScoreRev(c, T, maxScore, fail) ==
    ZCall(c, "RangeToScoreRev", RangeArgs(T, 0, maxScore, 0, 0 - 1, fail), zset,
          RangeToScoreRevRes(T, zset, Desc, maxScore, fail))

\* PopMin/PopMax: no element and no error when the store answers nothing,
\* else the first answer decoded; isNil tells the nil pointer
PopOne(T, r) ==
    IF r.err # "nil" THEN [val |-> [isNil |-> TRUE], err |-> r.err]
    ELSE IF Len(r.val) = 0 THEN [val |-> [isNil |-> TRUE], err |-> "nil"]
    ELSE [val |-> [isNil |-> FALSE, elem |-> redisZToElement(T, r.val[1])], err |-> "nil"]

\* PopMinMulti/PopMaxMulti: every answer decoded
PopMany(T, r) ==
    IF r.err # "nil" THEN [val |-> <<>>, err |-> r.err]
    ELSE [val |-> redisZToElements(T, r.val), err |-> "nil"]

PopMin(c, T, fail) ==
    LET r == IF fail THEN [val |-> <<>>, z |-> zset, err |-> "ERR_ZPOPMIN"]
             ELSE [val |-> ZPopMinCmd(zset, 1).val, z |-> ZPopMinCmd(zset, 1).z, err |-> "nil"]
    IN  ZCall(c, "PopMin", [T |-> T, fail |-> fail], r.z, PopOne(T, r))

PopMax(c, T, fail) ==
    LET r == IF fail THEN [val |-> <<>>, z |-> zset, err |-> "ERR_ZPOPMAX"]
             ELSE [val |-> ZPopMaxCmd(zset, 1).val, z |-> ZPopMaxCmd(zset, 1).z, err |-> "nil"]
    IN  ZCall(c, "PopMax", [T |-> T, fail |-> fail], r.z, PopOne(T, r))

PopMinMulti(c, T, count, fail) ==
    LET r == IF fail THEN [val |-> <<>>, z |-> zset, err |-> "ERR_ZPOPMIN"]
             ELSE [val |-> ZPopMinCmd(zset, count).val, z |-> ZPopMinCmd(zset, count).z,
                   err |-> "nil"]
    IN  ZCall(c, "PopMinMulti", [T |-> T, count |-> count, fail |-> fail], r.z, PopMany(T, r))

PopMaxMulti(c, T, count, fail) ==
    LET r == IF fail THEN [val |-> <<>>, z |-> zset, err |-> "ERR_ZPOPMAX"]
             ELSE [val |-> ZPopMaxCmd(zset, count).val, z |-> ZPopMaxCmd(zset, count).z,
                   err |-> "nil"]
    IN  ZCall(c, "PopMaxMulti", [T |-> T, count |-> count, fail |-> fail], r.z, PopMany(T, r))

\* a RemoveRangeByScore that counts the window and removes nothing
RemoveRangeByScoreCountOnly(c, min, max, fail) ==
    ZCall(c, "RemoveRangeByScore", [min |-> min, max |-> max, fail |-> fail], zset,
          IF fail THEN [val |-> 0, err |-> "ERR_ZREMRANGEBYSCORE"]
          ELSE ZCountCmd(zset, min, max))

\* RemoveRangeByScore: ZREMRANGEBYSCORE with the caller's bounds
RemoveRangeByScore(c, min, max, fail) ==
    LET r == IF fail THEN [val |-> 0, z |-> zset, err |-> "ERR_ZREMRANGEBYSCORE"]
             ELSE ZRemRangeByScoreCmd(zset, min, max)
    IN  ZCall(c, "RemoveRangeByScore", [min |-> min, max |-> max, fail |-> fail], r.z,
              [val |-> r.val, err |-> r.err])

\* Count: ZCARD
Count(c, fail) ==
    ZCall(c, "Count", [fail |-> fail], zset,
          IF fail THEN [val |-> 0, err |-> "ERR_ZCARD"]
          ELSE [val |-> Cardinality(DOMAIN zset), err |-> "nil"])

\* CountByScore: ZCOUNT with the caller's bounds
CountByScore(c, min, max, fail) ==
    ZCall(c, "CountByScore", [min |-> min, max |-> max, fail |-> fail], zset,
          IF fail THEN [val |-> 0, err |-> "ERR_ZCOUNT"] ELSE ZCountCmd(zset, min, max))

\* Score: ZSCORE; any error, redis.Nil included, is returned with 0
Score(c, T, member, fail) ==
    LET r == IF fail THEN [val |-> 0, err |-> "ERR_ZSCORE"]
             ELSE ZScoreCmd(zset, ToString(T, member))
    IN  ZCall(c, "Score", [member |-> ToString(T, member), fail |-> fail], zset,
              IF r.err # "nil" THEN [val |-> 0, err |-> r.err] ELSE r)

----------------------------------------------------------------------------
(* Inputs of the sorted queue *)

\* the Go values of type T that callers pass as members
MembersOf(wide, T) ==
    IF wide THEN (IF T = "int64" THEN {1, 10} ELSE {<<"x">>})
    ELSE (IF T = "int64" THEN {} ELSE {<<"x">>})

ScoresOf(wide) == IF wide THEN (0 - MaxScore)..MaxScore ELSE {1}

\* the elements of AddMulti's lists: every member, at the lowest score and at 1
ElementsOf(wide, T) ==
    [Member : MembersOf(wide, T), Score : IF wide THEN {0 - MaxScore, 1} ELSE {1}]

\* the bounds callers pass as strings to RemoveRangeByScore and CountByScore
BoundsOf(wide) == {MinusInf, PlusInf} \cup {ToString("int64", s) : s \in ScoresOf(wide)}

\* the score windows paged through with offset and count
PagedWindows(wide) ==
    IF wide THEN {<<NoBound, NoBound>>, <<0, MaxScore>>} ELSE {<<NoBound, NoBound>>}

----------------------------------------------------------------------------
(* Package log (src/log/logger_test.go): the package's own logger, the      *)
(* default logger the package-level functions write to, and the level       *)
(* GetLogLevel reports.  A logger is represented by the level set on it.    *)

\* the package's levels, type Level
LevelTrace == 0
LevelDebug == 1
LevelInfo == 2
LevelWarn == 3
LevelError == 4
LevelFatal == 5

\* the levels of the logging library the loggers are built on, klog.Level
klogLevelTrace == 0
klogLevelDebug == 1
klogLevelInfo == 2
klogLevelNotice == 3
klogLevelWarn == 4
klogLevelError == 5
klogLevelFatal == 6

KlogLevels == klogLevelTrace..klogLevelFatal

\* Level is an int: the arguments a caller can pass to SetLevel
LevelInputs == (LevelTrace - 1)..(LevelFatal + 1)

\* the package's own logger, and a klog.FullLogger of the caller's
Loggers == {"logger", "custom"}

\* the switch of SetLevel
KlogLevelOf(level) ==
    CASE level = LevelTrace -> klogLevelTrace
      [] level = LevelDebug -> klogLevelDebug
      [] level = LevelInfo -> klogLevelInfo
      [] level = LevelWarn -> klogLevelWarn
      [] level = LevelError -> klogLevelError
      [] level = LevelFatal -> klogLevelFatal
      [] OTHER -> klogLevelWarn

\* the level set on logger l
LevelOn(l) == IF l = "logger" THEN logger ELSE custom

\* l.SetLevel(lv)
LoggerSetLevel(l, lv) ==
    /\ logger' = IF l = "logger" THEN lv ELSE logger
    /\ custom' = IF l = "custom" THEN lv ELSE custom

\* the state of the store and of its callers, which package log never touches
storeVars == <<hash, hTTL, zset, zTTL, Desc, pend, sums>>

LogCall(op, arg, val) == [op |-> op, arg |-> arg, val |-> val]

SetLevel(level) ==
    /\ LoggerSetLevel(defaultLogger, KlogLevelOf(level))
    /\ logLevel' = level
    /\ last' = LogCall("SetLevel", level, "none")
    /\ UNCHANGED <<defaultLogger, storeVars>>

SetProdEnv ==
    /\ LoggerSetLevel("logger", klogLevelInfo)
    /\ logLevel' = LevelInfo
    /\ last' = LogCall("SetProdEnv", "none", "none")
    /\ UNCHANGED <<defaultLogger, storeVars>>

SetLogger(fullLogger) ==
    /\ defaultLogger' = fullLogger
    /\ last' = LogCall("SetLogger", fullLogger, "none")
    /\ UNCHANGED <<logger, custom, logLevel, storeVars>>

GetLogLevel ==
    /\ last' = LogCall("GetLogLevel", "none", logLevel)
    /\ UNCHANGED <<logVars, storeVars>>

\* Trace, Debug, Info, Notice, Warn, Error and their Ctx forms: the default
\* logger outputs a message of level lv unless lv is below the level set on it
Logf(lv) ==
    /\ last' = LogCall("Logf", lv, lv >= LevelOn(defaultLogger))
    /\ UNCHANGED <<logVars, storeVars>>

----------------------------------------------------------------------------
(* Clients calling the adapters *)

Init ==
    /\ hash = EmptyMap
    /\ hTTL = 0
    /\ zset = EmptyMap
    /\ zTTL = 0
    /\ Desc = FALSE
    /\ pend = [c \in Clients |-> Idle]
    /\ last = NoCall
    /\ sums = EmptyMap
    /\ logger = klogLevelDebug
    /\ custom = klogLevelInfo
    /\ defaultLogger = "logger"
    /\ logLevel = LevelDebug

\* the caller takes the result of the call that returned
TakeResult ==
    /\ last.op # "none"
    /\ last' = NoCall
    /\ UNCHANGED <<hash, hTTL, zset, zTTL, Desc, pend, sums, logVars>>

\* one call of client c on the field map, its arguments drawn from the given domains
HashCall(c, wide, Ds) ==
    \/ CanCall(c) /\ \E K \in Types, V \in Types, fail \in BOOLEAN, expire \in Ds :
         \E field \in FieldsOf(wide, K), value \in ValuesOf(wide, V) :
            Set(c, K, V, field, value, expire, fail)
    \/ CanCall(c) /\ \E K \in Types, V \in Types, fail \in BOOLEAN, expire \in Ds :
         \E fields \in MapsOf(FieldsOf(wide, K), ValuesOf(wide, V)) :
            SetMulti(c, K, V, fields, expire, fail)
    \/ CanCall(c) /\ \E K \in Types, fail \in BOOLEAN, expire \in Ds :
         \E field \in FieldsOf(wide, K), increment \in Increments(wide) :
            Incr(c, K, field, increment, expire, fail)
    \/ CanCall(c) /\ \E K \in Types, fail \in BOOLEAN, expire \in Ds :
         \E field \in FieldsOf(wide, K), increment \in Increments(wide) :
            IncrFloat(c, K, field, increment, expire, fail)
    \/ CanCall(c) /\ \E K \in Types, V \in Types, fail \in BOOLEAN :
         \E field \in FieldsOf(wide, K) : Get(c, K, V, field, fail)
    \/ CanCall(c) /\ \E K \in Types, fail \in BOOLEAN :
         \E field \in FieldsOf(wide, K) : Exists(c, K, field, fail)
    \/ CanCall(c) /\ \E K \in Types, V \in Types, fail \in BOOLEAN :
         \E fields \in SeqUpTo(FieldsOf(wide, K), MaxFields) : GetMulti(c, K, V, fields, fail)
    \/ CanCall(c) /\ \E K \in Types, fail \in BOOLEAN :
         \E fields \in SeqUpTo(FieldsOf(wide, K), MaxList) : Delete(c, K, fields, fail)
    \/ CanCall(c) /\ \E K \in Types, V \in Types, fail \in BOOLEAN, o \in Orders(hash) :
         GetAll(c, K, V, o, fail)
    \/ CanCall(c) /\ \E K \in Types, fail \in BOOLEAN, o \in Orders(hash) :
         Keys(c, K, o, fail)
    \/ CanCall(c) /\ \E V \in Types, fail \in BOOLEAN, o \in Orders(hash) :
         Values_(c, V, o, fail)
    \/ CanCall(c) /\ \E fail \in BOOLEAN : Len_(c, fail)

\* whether the store fails a command with string bounds: tried on the full window
FailsAt(min, max) == IF min = MinusInf /\ max = PlusInf THEN BOOLEAN ELSE {FALSE}

\* one write or pop of client c on the sorted queue
ZQWrite(c, wide, Ds) ==
    \/ CanCall(c) /\ \E T \in Types, fail \in BOOLEAN, expire \in Ds :
         \E member \in MembersOf(wide, T), score \in ScoresOf(wide) :
            Add(c, T, member, score, expire, fail)
    \/ CanCall(c) /\ \E T \in Types, fail \in BOOLEAN, expire \in Ds :
         \E elements \in SeqUpTo(ElementsOf(wide, T), MaxList) :
            AddMulti(c, T, elements, expire, fail)
    \/ CanCall(c) /\ \E T \in Types, fail \in BOOLEAN :
         \E member \in MembersOf(wide, T) : Remove(c, T, member, fail)
    \/ CanCall(c) /\ \E T \in Types, fail \in BOOLEAN :
         \E members \in SeqUpTo(MembersOf(wide, T), MaxList) :
            RemoveMulti(c, T, members, fail)
    \/ CanCall(c) /\ \E T \in Types, fail \in BOOLEAN : PopMin(c, T, fail)
    \/ CanCall(c) /\ \E T \in Types, fail \in BOOLEAN : PopMax(c, T, fail)
    \/ CanCall(c) /\ \E T \in Types, fail \in BOOLEAN, count \in 0..MaxCount :
         PopMinMulti(c, T, count, fail)
    \/ CanCall(c) /\ \E T \in Types, fail \in BOOLEAN, count \in 0..MaxCount :
         PopMaxMulti(c, T, count, fail)
    \/ CanCall(c) /\ \E min \in BoundsOf(wide), max \in BoundsOf(wide) :
         \E fail \in FailsAt(min, max) : RemoveRangeByScore(c, min, max, fail)

\* whether the store fails the command: tried under one instantiation, since a
\* failed command is decoded under none
FailsOf(T) == IF T = "int64" THEN BOOLEAN ELSE {FALSE}

\* one read of client c on the sorted queue
ZQRead(c, wide) ==
    \/ CanCall(c) /\ \E T \in Types, lo \in ScoresOf(wide), hi \in ScoresOf(wide) :
         \E fail \in FailsOf(T) : RangeByScore(c, T, lo, hi, fail)
    \/ CanCall(c) /\ \E T \in Types, lo \in ScoresOf(wide), hi \in ScoresOf(wide) :
         \E fail \in FailsOf(T) : RangeByScoreRev(c, T, lo, hi, fail)
    \/ CanCall(c) /\ \E T \in Types, w \in PagedWindows(wide), offset \in 0..MaxList,
                        count \in (0 - 1)..MaxList :
         \E fail \in FailsOf(T) :
            RangeByScoreWithLimit(c, T, w[1], w[2], offset, count, fail)
    \/ CanCall(c) /\ \E T \in Types, w \in PagedWindows(wide), offset \in 0..MaxList,
                        count \in (0 - 1)..MaxList :
         \E fail \in FailsOf(T) :
            RangeByScoreWithLimitRev(c, T, w[1], w[2], offset, count, fail)
    \/ CanCall(c) /\ \E T \in Types, s \in ScoresOf(wide) :
         \E fail \in FailsOf(T) : RangeFromScore(c, T, s, fail)
    \/ CanCall(c) /\ \E T \in Types, s \in ScoresOf(wide) :
         \E fail \in FailsOf(T) : RangeToScore(c, T, s, fail)
    \/ CanCall(c) /\ \E T \in Types, s \in ScoresOf(wide) :
         \E fail \in FailsOf(T) : RangeFromScoreRev(c, T, s, fail)
    \/ CanCall(c) /\ \E T \in Types, s \in ScoresOf(wide) :
         \E fail \in FailsOf(T) : RangeToScoreRev(c, T, s, fail)
    \/ CanCall(c) /\ \E T \in Types, fail \in BOOLEAN :
         \E member \in MembersOf(wide, T) : Score(c, T, member, fail)
    \/ CanCall(c) /\ \E fail \in BOOLEAN : Count(c, fail)
    \/ CanCall(c) /\ \E min \in BoundsOf(wide), max \in BoundsOf(wide) :
         \E fail \in FailsAt(min, max) : CountByScore(c, min, max, fail)

\* The field map under both instantiations of V, every write without expiry.
\* Each of these calls is one command, atomic at the store, so the calls of
\* several clients interleave as the calls of one.
HashNext ==
    \/ HashCall("c1", TRUE, {0})
    \/ TakeResult

HashMapSpec == Init /\ [][HashNext]_vars

\* an adapter is constructed with either ordering
ZQInit ==
    /\ Init!1 /\ Init!2 /\ Init!3 /\ Init!4 /\ Init!6 /\ Init!7 /\ Init!8
    /\ Init!9 /\ Init!10 /\ Init!11 /\ Init!12
    /\ Desc \in BOOLEAN

\* The sorted queue under both instantiations of T, every write without expiry
ZQNext ==
    \/ ZQWrite("c1", TRUE, {0})
    \/ ZQRead("c1", TRUE)
    \/ TakeResult

ZQueueSpec == ZQInit /\ [][ZQNext]_vars

\* Writes with an expiry: client c1 sends batches with any expire argument
\* while client c2 reads and writes without one; the store executes the
\* commands of a batch one by one, the commands of c2 in between.
ExpiryNext ==
    \/ HashCall("c1", FALSE, Durations)
    \/ ZQWrite("c1", FALSE, Durations)
    \/ HashCall("c2", FALSE, NonPositive)
    \/ ZQWrite("c2", FALSE, NonPositive)
    \/ ZQRead("c2", FALSE)
    \/ \E c \in Clients, fail \in BOOLEAN : ExecExpire(c, fail)
    \/ TakeResult

ExpirySpec == Init /\ [][ExpiryNext]_vars

----------------------------------------------------------------------------
(* Properties: writes with an expiry *)

ContainerOf(key) == IF key = "hash" THEN hash ELSE zset

TTLOf(key) == IF key = "hash" THEN hTTL ELSE zTTL

PipelinedOps == {"Set", "SetMulti", "Incr", "IncrFloat", "Add", "AddMulti"}

MultiOps == {"SetMulti", "AddMulti", "RemoveMulti"}

\* C1: a write called with ttl > 0 takes effect together with its expiry: in no
\* state that another client can observe is the value write of a call applied
\* to the container while the expiry that call asked for is not set.
C1_WriteAndExpiryTogether ==
    \A c \in Clients :
        (/\ pend[c].op \in PipelinedOps
         /\ pend[c].err = "nil"
         /\ DOMAIN ContainerOf(pend[c].key) # {})
        => TTLOf(pend[c].key) = pend[c].expire

\* C2: when a command of the batch of a write called with ttl > 0 fails, the
\* call returns the error of the first command that failed (and no value from
\* Incr/IncrFloat); a call that returns success has set the expiry it asked
\* for on the container it wrote.
C2_FirstErrorReturned ==
    (last.op \in PipelinedOps /\ last.expire > 0 /\ Len(last.errs) = 2) =>
        LET failed == {i \in 1..2 : last.errs[i] # "nil"}
        IN  /\ failed # {} =>
                /\ last.err # "nil"
                /\ last.err = last.errs[CHOOSE i \in failed : \A j \in failed : i <= j]
                /\ last.op \in IncrOps => last.val = 0
            /\ last.err = "nil" =>
                /\ failed = {}
                /\ DOMAIN ContainerOf(last.key) # {} => TTLOf(last.key) = last.expire

\* C2 witness: a Set with ttl > 0 whose value was written and whose Expire
\* failed has returned that error
C2_Witness ==
    /\ last.op = "Set"
    /\ last.expire > 0
    /\ last.errs = <<"nil", "ERR_EXPIRE">>
    /\ last.err = "ERR_EXPIRE"
    /\ DOMAIN hash # {}

\* C4: SetMulti, AddMulti and RemoveMulti called with nothing, the store being
\* healthy, return no error and have sent no command (so that the containers
\* and their expiry are as they were).
C4_EmptyInputIsNoOp ==
    (last.op \in MultiOps /\ last.args.n = 0 /\ ~last.args.fail) =>
        /\ last.err = "nil"
        /\ last.errs = << >>

----------------------------------------------------------------------------
(* Properties: decoding *)

RangeOps ==
    {"RangeByScore", "RangeByScoreWithLimit", "RangeFromScore", "RangeToScore",
     "RangeByScoreRev", "RangeByScoreWithLimitRev", "RangeFromScoreRev",
     "RangeToScoreRev"}

PopOps == {"PopMin", "PopMax", "PopMinMulti", "PopMaxMulti"}

HashDecodingOps == {"Get", "GetMulti", "GetAll", "Keys", "Values"}

\* the elements a range or pop call returned, as a sequence
ElementsReturned(r) ==
    IF r.op \in {"PopMin", "PopMax"}
    THEN (IF r.val.isNil THEN <<>> ELSE <<r.val.elem>>)
    ELSE r.val

\* the stored strings of h that the answered field-map read r has decoded,
\* each with the type it is decoded into
HashStringsRead(h, r) ==
    LET a == r.args
    IN  IF r.op = "Get"
        THEN {<<a.V, h[f]>> : f \in {ToString(a.K, a.field)} \cap DOMAIN h}
        ELSE IF r.op = "GetMulti"
        THEN {<<a.V, h[f]>> : f \in {ToString(a.K, k) : k \in Range(a.fields)} \cap DOMAIN h}
        ELSE IF r.op = "GetAll"
        THEN {<<a.K, f>> : f \in DOMAIN h} \cup {<<a.V, h[f]>> : f \in DOMAIN h}
        ELSE IF r.op = "Keys" THEN {<<a.K, f>> : f \in DOMAIN h}
        ELSE {<<a.V, h[f]>> : f \in DOMAIN h}

\* the part of C3 on the field map: a read that met a stored string it cannot
\* decode returned an error and no data
HashDecodeSurfaced(h, r) ==
    (\E p \in HashStringsRead(h, r) : ~Decodable(p[1], p[2])) =>
        /\ r.err # "nil"
        /\ r.val = (IF r.op = "Get" THEN Zero(r.args.V)
                     ELSE IF r.op \in {"GetMulti", "GetAll"} THEN EmptyMap
                     ELSE <<>>)

\* the part of C3 on the sorted queue: a range or pop on the container z that
\* returned no error returned, for every element, the decoding of a stored
\* member that decodes into T, with its score; and a pop that took a member
\* that does not decode into T returned an error and no element
QueueDecodeSurfaced(z, zAfter, r) ==
    LET T  == r.args.T
        es == ElementsReturned(r)
    IN  /\ r.err = "nil" =>
              \A i \in 1..Len(es) :
                  \E m \in DOMAIN z :
                      /\ Decodable(T, m)
                      /\ ToAnyE(T, m).val = es[i].Member
                      /\ z[m] = es[i].Score
        /\ (\E m \in (DOMAIN z) \ (DOMAIN zAfter) : ~Decodable(T, m)) =>
              (r.err # "nil" /\ Len(es) = 0)

\* C3: every call that decodes stored strings into the generic type (Get,
\* GetMulti, GetAll, Keys, Values; the range calls; the pops), answered by the
\* store, returns an error and no data when an entry it reads does not decode
\* into the target type, never a zero value or a partial result.
C3_DecodeFailuresSurfaced ==
    [][(/\ last.op = "none"
        /\ last'.op \in HashDecodingOps \cup RangeOps \cup PopOps
        /\ ~last'.args.fail)
       => IF last'.op \in HashDecodingOps
          THEN HashDecodeSurfaced(hash, last')
          ELSE QueueDecodeSurfaced(zset, zset', last')]_vars

----------------------------------------------------------------------------
(* Properties: score windows and order *)

BaseRangeOps == {"RangeByScore", "RangeFromScore", "RangeToScore"}

RevRangeOps == {"RangeByScoreRev", "RangeFromScoreRev", "RangeToScoreRev"}

\* whether the caller of op gave a bound on the low / on the high side
HasLow(op) == op \in {"RangeByScore", "RangeFromScore", "RangeByScoreRev", "RangeFromScoreRev"}

HasHigh(op) == op \in {"RangeByScore", "RangeToScore", "RangeByScoreRev", "RangeToScoreRev"}

\* the members of z whose score lies in the window the caller of r asked for
AskedWindow(z, r) ==
    {m \in DOMAIN z : /\ HasLow(r.op) => r.args.min <= z[m]
                      /\ HasHigh(r.op) => z[m] <= r.args.max}

\* C5: for every minScore and maxScore, negative ones included, RangeByScore,
\* RangeFromScore and RangeToScore (and their Rev variants), answered by the
\* store, return exactly the elements whose score lies in the window asked
\* for: as many elements as the window holds, each with a score of the window.
C5_ExactScoreWindow ==
    (last.op \in BaseRangeOps \cup RevRangeOps /\ ~last.args.fail) =>
        /\ last.err = "nil"
        /\ Len(last.val) = Cardinality(AskedWindow(zset, last))
        /\ \A i \in 1..Len(last.val) :
               \E m \in AskedWindow(zset, last) : zset[m] = last.val[i].Score

\* the answer of the call that mirrors the answered range call r: the Rev
\* call of a base call and the base call of a Rev call, with r's arguments
MirrorRes(z, d, r) ==
    LET a == r.args
    IN  CASE r.op = "RangeByScore"      -> RangeByScoreRevRes(a.T, z, d, a.min, a.max, FALSE)
          [] r.op = "RangeFromScore"    -> RangeFromScoreRevRes(a.T, z, d, a.min, FALSE)
          [] r.op = "RangeToScore"      -> RangeToScoreRevRes(a.T, z, d, a.max, FALSE)
          [] r.op = "RangeByScoreRev"   -> RangeByScoreRes(a.T, z, d, a.min, a.max, FALSE)
          [] r.op = "RangeFromScoreRev" -> RangeFromScoreRes(a.T, z, d, a.min, FALSE)
          [] r.op = "RangeToScoreRev"   -> RangeToScoreRes(a.T, z, d, a.max, FALSE)

\* the scores of es never decrease (up) or never increase (~up)
Ordered(es, up) ==
    \A i, j \in 1..Len(es) :
        i < j => IF up THEN es[i].Score <= es[j].Score ELSE es[i].Score >= es[j].Score

\* C6: a base range call returns its elements in ascending score order when
\* Desc is false and in descending order when Desc is true (a Rev call the
\* other way round), and on the unchanged container the Rev call with the same
\* arguments returns exactly the reverse sequence, elements of equal score
\* included.
C6_OrderAndReverse ==
    (last.op \in BaseRangeOps \cup RevRangeOps /\ ~last.args.fail) =>
        /\ last.err = "nil"
        /\ Ordered(last.val, IF last.op \in BaseRangeOps THEN ~Desc ELSE Desc)
        /\ MirrorRes(zset, Desc, last).err = "nil"
        /\ MirrorRes(zset, Desc, last).val = Reverse(last.val)

\* C6 witness: with Desc set, a base range call has returned three elements,
\* two of them with the same score
C6_Witness ==
    /\ Desc
    /\ last.op = "RangeByScore"
    /\ last.err = "nil"
    /\ Len(last.val) = 3
    /\ last.val[1].Score > last.val[2].Score
    /\ last.val[2].Score = last.val[3].Score
    /\ last.val[2].Member # last.val[3].Member

----------------------------------------------------------------------------
(* Properties: the field map *)

\* C7: a successful Set(f, v, 0) is followed, with no write in between, by a
\* Get(f) that returns (v, nil); Get of a field that is not in the container
\* returns the zero value and no error; Delete, answered by the store, returns
\* no error, field present or not, removes the fields it names and no other,
\* and a Get of a deleted field then returns the zero value and no error.
C7_SetGetDelete ==
    [][(last.op = "none" /\ last'.op \in {"Set", "Get", "Delete"} /\ ~last'.args.fail) =>
        LET a == last'.args
        IN  /\ (last'.op = "Set" /\ last'.err = "nil") =>
                   GetRes(a.K, a.V, hash', a.field, FALSE) = [val |-> a.value, err |-> "nil"]
            /\ (last'.op = "Get" /\ ToString(a.K, a.field) \notin DOMAIN hash) =>
                   (last'.val = Zero(a.V) /\ last'.err = "nil")
            /\ last'.op = "Delete" =>
                   /\ last'.err = "nil"
                   /\ hash' = Without(hash, {ToString(a.K, k) : k \in Range(a.fields)})
                   /\ \A k \in Range(a.fields), V \in Types :
                          GetRes(a.K, V, hash', k, FALSE) = [val |-> Zero(V), err |-> "nil"]
       ]_vars

\* C7 witness: a Delete naming a field has returned no error and has left
\* another field, written by Set, in the container
C7_Witness ==
    /\ last.op = "Delete"
    /\ last.err = "nil"
    /\ Len(last.args.fields) > 0
    /\ \A k \in Range(last.args.fields) : ToString(last.args.K, k) \notin DOMAIN hash
    /\ <<"a">> \in DOMAIN hash
    /\ hash[<<"a">>] = <<"-", "1">>

\* C9: a successful Incr(f, d, ttl) returns old + d, old being the integer the
\* field holds and 0 when the field is absent, stores that result in the field
\* and touches no other field; for a field written by successful Incr calls
\* only since it was absent, the value returned is the sum of their deltas.
C9_IncrReturnsSum ==
    [][(last.op = "none" /\ last'.op = "Incr" /\ last'.err = "nil") =>
        LET f   == last'.args.field
            d   == last'.args.increment
            old == IF f \in DOMAIN hash THEN ParseInt(hash[f]).val ELSE 0
        IN  /\ f \in DOMAIN hash => ParseInt(hash[f]).ok
            /\ last'.val = old + d
            /\ f \in DOMAIN hash'
            /\ hash'[f] = ToString("int64", old + d)
            /\ \A g \in (DOMAIN hash \cup DOMAIN hash') \ {f} :
                   g \in DOMAIN hash /\ g \in DOMAIN hash' /\ hash'[g] = hash[g]
            /\ f \in DOMAIN sums' => last'.val = sums'[f]
       ]_vars

\* C9 witness: Incr of a field by 1, then by 1 again, has returned 2
C9_Witness ==
    /\ last.op = "Incr"
    /\ last.err = "nil"
    /\ last.args.increment = 1
    /\ last.args.field \in DOMAIN sums
    /\ sums[last.args.field] = 2
    /\ last.val = 2

\* C10: GetMulti, answered by the store with values that decode, returns no
\* error and a map whose keys are exactly the requested fields that are in the
\* container, each with its stored value; absent fields are left out, however
\* the request repeats or orders its fields.
C10_GetMultiExistingOnly ==
    (last.op = "GetMulti" /\ ~last.args.fail) =>
        LET a       == last.args
            present == {k \in Range(a.fields) : ToString(a.K, k) \in DOMAIN hash}
        IN  (\A k \in present : Decodable(a.V, hash[ToString(a.K, k)])) =>
                /\ last.err = "nil"
                /\ DOMAIN last.val = present
                /\ \A k \in present : ToString(a.V, last.val[k]) = hash[ToString(a.K, k)]

\* C10 witness: a request of three fields, the first repeated as the third and
\* present, the second absent, has returned the one present field
C10_Witness ==
    /\ last.op = "GetMulti"
    /\ last.err = "nil"
    /\ Len(last.args.fields) = 3
    /\ last.args.fields[1] = last.args.fields[3]
    /\ last.args.fields[1] # last.args.fields[2]
    /\ DOMAIN last.val = {last.args.fields[1]}
    /\ DOMAIN hash = {ToString(last.args.K, last.args.fields[1])}

----------------------------------------------------------------------------
(* Properties: pops *)

\* what a pop call r, taking the container from z to zAfter, owes its caller:
\* no error; as many elements as asked for and held, removed and returned;
\* every element returned is a removed entry, member and score; the entries
\* removed are the lowest (PopMin, PopMinMulti) or highest ones and come in pop
\* order; every other entry stays as it was.  With onlyDecodable, this is owed
\* only when every removed member decodes into T.
PopDelivers(z, zAfter, r, onlyDecodable) ==
    LET T       == r.args.T
        es      == ElementsReturned(r)
        removed == (DOMAIN z) \ (DOMAIN zAfter)
        asked   == IF r.op \in {"PopMin", "PopMax"} THEN 1 ELSE r.args.count
        k       == MinOf(asked, Cardinality(DOMAIN z))
        low     == r.op \in {"PopMin", "PopMinMulti"}
    IN  (onlyDecodable => \A m \in removed : Decodable(T, m)) =>
            /\ r.err = "nil"
            /\ Len(es) = k
            /\ Cardinality(removed) = k
            /\ zAfter = Restrict(z, (DOMAIN z) \ removed)
            /\ \A m \in removed :
                   \E i \in 1..Len(es) :
                       ToString(T, es[i].Member) = m /\ es[i].Score = z[m]
            /\ \A m \in removed : \A n \in DOMAIN zAfter :
                   IF low THEN z[m] <= z[n] ELSE z[m] >= z[n]
            /\ Ordered(es, low)
            /\ r.op \in {"PopMin", "PopMax"} => (r.val.isNil <=> z = EmptyMap)

\* C8: PopMin (PopMax), answered by the store, removes and returns the element
\* with the lowest (highest) score and leaves every other element; on an empty
\* container it returns no element and no error and changes nothing;
\* PopMinMulti(count) / PopMaxMulti(count) remove and return exactly
\* min(count, size) elements, the lowest (highest) ones, in pop order.
C8_PopRemovesAndReturns ==
    [][(last.op = "none" /\ last'.op \in PopOps /\ ~last'.args.fail) =>
           PopDelivers(zset, zset', last', FALSE)]_vars

\* C8 where the C3 defect cannot act: the same, for pops whose removed members
\* all decode into T
PopsOfDecodableMembers ==
    [][(last.op = "none" /\ last'.op \in PopOps /\ ~last'.args.fail) =>
           PopDelivers(zset, zset', last', TRUE)]_vars

----------------------------------------------------------------------------
(* Properties: removal by score *)

\* whether the score s lies between the bounds the caller wrote as strings
ScoreBetween(s, min, max) ==
    /\ min # PlusInf /\ (min = MinusInf \/ ParseInt(min).val <= s)
    /\ max # MinusInf /\ (max = PlusInf \/ s <= ParseInt(max).val)

\* C11: RemoveRangeByScore(min, max), answered by the store, returns the value
\* CountByScore(min, max) had before the call and removes exactly the elements
\* with a score between the bounds; with "-inf" and "+inf" it returns what
\* Count() returned before the call and leaves a container that Count()s 0.
C11_RemoveRangeReturnsCount ==
    [][(last.op = "none" /\ last'.op = "RemoveRangeByScore" /\ ~last'.args.fail) =>
        LET min  == last'.args.min
            max  == last'.args.max
            gone == {m \in DOMAIN zset : ScoreBetween(zset[m], min, max)}
        IN  /\ last'.err = "nil"
            /\ last'.val = ZCountCmd(zset, min, max).val
            /\ last'.val = Cardinality(gone)
            /\ zset' = Restrict(zset, (DOMAIN zset) \ gone)
            /\ (min = MinusInf /\ max = PlusInf) =>
                   /\ last'.val = Cardinality(DOMAIN zset)
                   /\ Cardinality(DOMAIN zset') = 0
       ]_vars

\* C11 witness: RemoveRangeByScore("-inf", "+inf") has returned 2 and left
\* the container empty
C11_Witness ==
    /\ last.op = "RemoveRangeByScore"
    /\ last.args.min = MinusInf
    /\ last.args.max = PlusInf
    /\ last.err = "nil"
    /\ last.val = 2
    /\ zset = EmptyMap

----------------------------------------------------------------------------
(* Properties: the adapter's configuration *)

QueueOps ==
    RangeOps \cup PopOps \cup
    {"Add", "AddMulti", "Remove", "RemoveMulti", "RemoveRangeByScore", "Count",
     "CountByScore", "Score"}

\* C12: no call changes the configuration of the adapter: the Desc flag is
\* after every step what it was before, every call of the sorted queue acts on
\* the adapter's key, and a range call, whatever calls came before it, orders
\* by the stored flag: ascending for a base call and descending for a Rev call
\* when Desc is false, the other way round when Desc is true.
C12_ConfigurationUnchanged ==
    [][/\ Desc' = Desc
       /\ last'.op \in QueueOps => last'.key = "zset"
       /\ (last.op = "none" /\ last'.op \in BaseRangeOps \cup RevRangeOps /\ ~last'.args.fail) =>
              Ordered(last'.val, IF last'.op \in BaseRangeOps THEN ~Desc ELSE Desc)
      ]_vars

\* C12 witness: on an adapter with Desc set, a Rev call has answered in
\* ascending order, the flag still set
C12_Witness ==
    /\ Desc
    /\ last.op = "RangeByScoreRev"
    /\ last.err = "nil"
    /\ Len(last.val) = 2
    /\ last.val[1].Score < last.val[2].Score

----------------------------------------------------------------------------
(* Properties: paging *)

LimitOps == {"RangeByScoreWithLimit", "RangeByScoreWithLimitRev"}

\* the answer, on the container z, of the call of r without offset and count
FullRes(z, d, r) ==
    LET a == r.args
    IN  IF r.op = "RangeByScoreWithLimit"
        THEN RangeByScoreRes(a.T, z, d, a.min, a.max, FALSE)
        ELSE RangeByScoreRevRes(a.T, z, d, a.min, a.max, FALSE)

\* the answer, on the container z, of the call of r with another offset and count
PageRes(z, d, r, offset, count) ==
    LET a == r.args
    IN  IF r.op = "RangeByScoreWithLimit"
        THEN RangeByScoreWithLimitRes(a.T, z, d, a.min, a.max, offset, count, FALSE)
        ELSE RangeByScoreWithLimitRevRes(a.T, z, d, a.min, a.max, offset, count, FALSE)

RECURSIVE Pages(_, _, _, _, _, _)
\* the pages of n elements at offsets from, from + n, ... below len, concatenated
Pages(z, d, r, n, from, len) ==
    IF from >= len THEN <<>>
    ELSE PageRes(z, d, r, from, n).val \o Pages(z, d, r, n, from + n, len)

\* what a paged call r owes on the container z: the slice of the full answer
\* that starts at index offset and holds min(count, remaining) elements, all
\* remaining ones for count = -1; and pages of every size n >= 1 that
\* concatenate to the full answer.  With exceptZeroZero, the slice is owed only
\* when offset and count are not both 0.
PageIsSlice(z, d, r, exceptZeroZero) ==
    LET full      == FullRes(z, d, r).val
        offset    == r.args.offset
        count     == r.args.count
        remaining == IF Len(full) > offset THEN Len(full) - offset ELSE 0
        n         == IF count = 0 - 1 THEN remaining ELSE MinOf(count, remaining)
    IN  /\ r.err = "nil"
        /\ (exceptZeroZero /\ offset = 0 /\ count = 0) \/
               r.val = SubSeq(full, offset + 1, offset + n)
        /\ \A size \in 1..MaxList : Pages(z, d, r, size, 0, Len(full)) = full

\* C13: RangeByScoreWithLimit and its Rev variant, answered by the store,
\* return the contiguous slice of the full ordered result of the same call
\* without limit, starting at index offset and holding min(count, remaining)
\* elements for every count >= 0 and all remaining elements for count = -1;
\* consecutive pages concatenate to the full result.
C13_LimitIsSlice ==
    (last.op \in LimitOps /\ ~last.args.fail) => PageIsSlice(zset, Desc, last, FALSE)

\* C13 apart from the call with offset 0 and count 0
PagingExceptZeroZero ==
    (last.op \in LimitOps /\ ~last.args.fail) => PageIsSlice(zset, Desc, last, TRUE)

----------------------------------------------------------------------------
(* Properties: what changes an expiry *)

Containers == {"hash", "zset"}

ContainerAfter(key) == IF key = "hash" THEN hash' ELSE zset'

TTLAfterStep(key) == IF key = "hash" THEN hTTL' ELSE zTTL'

\* Containers of several entries: the fields, the members with their scores
\* and the score bounds of the calls below, all through HashMap[string,int64]
\* and ZQueue[string]
PairFields == {<<"a">>, <<"1">>}

PairElements == {[Member |-> <<"x">>, Score |-> 1], [Member |-> <<"a">>, Score |-> 2]}

PairMembers == {e.Member : e \in PairElements}

PairScores == {e.Score : e \in PairElements}

PairBounds == {MinusInf, PlusInf} \cup {ToString("int64", s) : s \in PairScores}

\* one write, delete, remove or pop of client c, a write with an expire of Ds
TTLWrite(c, Ds) ==
    \/ CanCall(c) /\ \E field \in PairFields, expire \in Ds, fail \in BOOLEAN :
         Set(c, "string", "int64", field, 1, expire, fail)
    \/ CanCall(c) /\ \E fields \in MapsOf(PairFields, {1}), expire \in Ds :
         SetMulti(c, "string", "int64", fields, expire, FALSE)
    \/ CanCall(c) /\ \E expire \in Ds : Incr(c, "string", <<"a">>, 1, expire, FALSE)
    \/ CanCall(c) /\ \E expire \in Ds : IncrFloat(c, "string", <<"1">>, 1, expire, FALSE)
    \/ CanCall(c) /\ \E fields \in SeqUpTo(PairFields, MaxList) :
         Delete(c, "string", fields, FALSE)
    \/ CanCall(c) /\ \E e \in PairElements, expire \in Ds, fail \in BOOLEAN :
         Add(c, "string", e.Member, e.Score, expire, fail)
    \/ CanCall(c) /\ \E elements \in SeqUpTo(PairElements, MaxList), expire \in Ds :
         AddMulti(c, "string", elements, expire, FALSE)
    \/ CanCall(c) /\ \E member \in PairMembers : Remove(c, "string", member, FALSE)
    \/ CanCall(c) /\ \E members \in SeqUpTo(PairMembers, MaxList) :
         RemoveMulti(c, "string", members, FALSE)
    \/ CanCall(c) /\ PopMin(c, "string", FALSE)
    \/ CanCall(c) /\ PopMax(c, "string", FALSE)
    \/ CanCall(c) /\ \E count \in 0..MaxList : PopMinMulti(c, "string", count, FALSE)
    \/ CanCall(c) /\ \E count \in 0..MaxList : PopMaxMulti(c, "string", count, FALSE)
    \/ CanCall(c) /\ \E min \in PairBounds, max \in PairBounds :
         RemoveRangeByScore(c, min, max, FALSE)

\* one read or count of client c
TTLRead(c) ==
    \/ CanCall(c) /\ \E field \in PairFields : Get(c, "string", "int64", field, FALSE)
    \/ CanCall(c) /\ \E field \in PairFields : Exists(c, "string", field, FALSE)
    \/ CanCall(c) /\ \E fields \in SeqUpTo(PairFields, MaxList) :
         GetMulti(c, "string", "int64", fields, FALSE)
    \/ CanCall(c) /\ \E o \in Orders(hash) : GetAll(c, "string", "int64", o, FALSE)
    \/ CanCall(c) /\ \E o \in Orders(hash) : Keys(c, "string", o, FALSE)
    \/ CanCall(c) /\ \E o \in Orders(hash) : Values_(c, "int64", o, FALSE)
    \/ CanCall(c) /\ Len_(c, FALSE)
    \/ CanCall(c) /\ \E lo \in PairScores, hi \in PairScores :
         RangeByScore(c, "string", lo, hi, FALSE)
    \/ CanCall(c) /\ \E lo \in PairScores, hi \in PairScores :
         RangeByScoreRev(c, "string", lo, hi, FALSE)
    \/ CanCall(c) /\ \E offset \in 0..1 :
         RangeByScoreWithLimit(c, "string", NoBound, NoBound, offset, 1, FALSE)
    \/ CanCall(c) /\ \E offset \in 0..1 :
         RangeByScoreWithLimitRev(c, "string", NoBound, NoBound, offset, 1, FALSE)
    \/ CanCall(c) /\ \E s \in PairScores : RangeFromScore(c, "string", s, FALSE)
    \/ CanCall(c) /\ \E s \in PairScores : RangeToScore(c, "string", s, FALSE)
    \/ CanCall(c) /\ \E s \in PairScores : RangeFromScoreRev(c, "string", s, FALSE)
    \/ CanCall(c) /\ \E s \in PairScores : RangeToScoreRev(c, "string", s, FALSE)
    \/ CanCall(c) /\ \E member \in PairMembers : Score(c, "string", member, FALSE)
    \/ CanCall(c) /\ Count(c, FALSE)
    \/ CanCall(c) /\ \E min \in PairBounds, max \in PairBounds :
         CountByScore(c, min, max, FALSE)

\* Every call of both adapters on containers of up to two entries: client c1
\* writes with no expiry or with one, client c2 writes with none or a negative
\* expire argument and reads; the store executes the commands of a batch one by one,
\* the other client's commands in between.
TTLNext ==
    \/ TTLWrite("c1", {0, 5})
    \/ TTLWrite("c2", NonPositive)
    \/ TTLRead("c2")
    \/ \E c \in Clients, fail \in BOOLEAN : ExecExpire(c, fail)
    \/ TakeResult

TTLSpec == Init /\ [][TTLNext]_vars

\* the step executes the Expire command of a write of client c on the
\* container key, called with ttl > 0, and sets the expiry that call asked for
ExpireOfWrite(c, key) ==
    /\ pend[c].op \in PipelinedOps
    /\ pend'[c] = Idle
    /\ pend[c].key = key
    /\ pend[c].expire > 0
    /\ TTLAfterStep(key) = pend[c].expire

\* the step empties the container key, and the store drops it with its expiry
Emptied(key) ==
    /\ DOMAIN ContainerOf(key) # {}
    /\ DOMAIN ContainerAfter(key) = {}
    /\ TTLAfterStep(key) = 0

\* C14 as claimed: the expiry of a container changes only in a write called
\* with ttl > 0; writes with ttl <= 0, reads, deletes, removes, pops and
\* counts neither refresh, shorten nor clear it.
C14_OnlyWritesWithTTL ==
    [][\A key \in Containers :
           TTLAfterStep(key) # TTLOf(key) => \E c \in Clients : ExpireOfWrite(c, key)]_vars

\* C14 amended: the only expiry command is the Expire of a write called with
\* ttl > 0; any other step leaves the expiry of a container as it was unless
\* the step removes the last entry of the container, which drops the container
\* together with its expiry; and a call with ttl <= 0 has sent one command.
C14_OnlyWritesWithTTLOrEmptying ==
    [][/\ \A key \in Containers :
              TTLAfterStep(key) # TTLOf(key) =>
                  \/ \E c \in Clients : ExpireOfWrite(c, key)
                  \/ Emptied(key)
       /\ (last'.op \in PipelinedOps /\ last'.expire <= 0) => Len(last'.errs) <= 1
       /\ \A c \in Clients : pend'[c].op # "idle" => pend'[c].expire > 0
      ]_vars

\* C14 witness: a PopMin has taken one of the two entries of a container whose
\* expiry, set by an earlier write, is still 5 on the entry that remains
C14_Witness ==
    /\ last.op = "PopMin"
    /\ last.err = "nil"
    /\ ~last.val.isNil
    /\ Cardinality(DOMAIN zset) = 1
    /\ zTTL = 5

----------------------------------------------------------------------------
(* Properties: concurrent pops *)

\* Two callers on one key of the sorted queue: c1 adds with and without an
\* expiry, c2 without, and both remove and pop; every pop is one command of the
\* store, executed between the commands of the other caller's batches.
PopNext ==
    \/ ZQWrite("c1", TRUE, {0, 5})
    \/ ZQWrite("c2", TRUE, {0})
    \/ \E c \in Clients, fail \in BOOLEAN : ExecExpire(c, fail)
    \/ TakeResult

PopSpec == Init /\ [][PopNext]_vars

\* what a pop r, taking the container from z to zAfter, owes the callers as a
\* whole: the entries that left the container are the elements r returned,
\* each of them once, and nothing else changed; a pop that returned an error
\* took nothing.  With onlyDecodable, this is owed only when every entry that
\* left decodes into T.
DeliveredOnce(z, zAfter, r, onlyDecodable) ==
    LET T       == r.args.T
        es      == ElementsReturned(r)
        removed == (DOMAIN z) \ (DOMAIN zAfter)
    IN  (onlyDecodable => \A m \in removed : Decodable(T, m)) =>
            /\ zAfter = Restrict(z, (DOMAIN z) \ removed)
            /\ r.err # "nil" => removed = {}
            /\ Len(es) = Cardinality(removed)
            /\ \A m \in removed :
                   Cardinality({i \in 1..Len(es) :
                       ToString(T, es[i].Member) = m /\ es[i].Score = z[m]}) = 1

\* C15: when several callers pop from one key, in every interleaving each
\* element of the container is returned to at most one caller and no element
\* is lost: every pop returns exactly the entries it took out of the
\* container, each once, and an entry taken out is no longer there for any
\* other caller.
C15_PopsDeliverOnce ==
    [][(last.op = "none" /\ last'.op \in PopOps) =>
           DeliveredOnce(zset, zset', last', FALSE)]_vars

\* C15 where the C3 defect cannot act: the same, for pops whose removed
\* members all decode into T
DecodablePopsDeliverOnce ==
    [][(last.op = "none" /\ last'.op \in PopOps) =>
           DeliveredOnce(zset, zset', last', TRUE)]_vars

----------------------------------------------------------------------------
(* Package log: a program configuring the loggers and writing messages *)

\* the caller's logger comes with whatever level the caller set on it
LogInit ==
    /\ Init!1 /\ Init!2 /\ Init!3 /\ Init!4 /\ Init!5 /\ Init!6 /\ Init!7 /\ Init!8
    /\ Init!9 /\ Init!11 /\ Init!12
    /\ custom \in KlogLevels

LogNext ==
    \/ \E level \in LevelInputs : SetLevel(level)
    \/ SetProdEnv
    \/ \E fullLogger \in Loggers : SetLogger(fullLogger)
    \/ GetLogLevel
    \/ \E lv \in klogLevelTrace..klogLevelError : Logf(lv)

LogSpec == LogInit /\ [][LogNext]_vars

(* Properties: the reported log level *)

\* the package's levels
Levels == LevelTrace..LevelFatal

\* C16: after any sequence of SetLevel, SetProdEnv and SetLogger calls, with
\* any Level argument, the level GetLogLevel returns is the level in force on
\* the default logger the package-level functions write to.
C16_ReportedLevelInForce ==
    last.op = "GetLogLevel" =>
        /\ last.val \in Levels
        /\ KlogLevelOf(last.val) = LevelOn(defaultLogger)

\* What the code does keep: right after SetLevel with one of the package's
\* levels, that level is both reported and in force on the default logger.
SetLevelInRangeTakesEffect ==
    (last.op = "SetLevel" /\ last.arg \in Levels) =>
        /\ logLevel = last.arg
        /\ LevelOn(defaultLogger) = KlogLevelOf(last.arg)

=============================================================================
